---- MODULE Spec2Model ----
(***************************************************************************)
(* Model of pwforecast.PwForecast (src/pwforecast.py): the reserve target  *)
(* calculation, the set_backup_reserve_percent convergence loop and the    *)
(* outer retry loops of set_peak_mode / set_off_peak_mode.                 *)
(*                                                                         *)
(* Arithmetic: the efficiency factors 0.95 are carried as whole percents   *)
(* (95) and energies are compared after scaling by Scale = 100 * 100, so   *)
(* the fill loop is computed in exact rational arithmetic.  Inputs are     *)
(* integers, so two compared quantities differ by at least 1/Scale, far    *)
(* more than the rounding error of the doubles the program uses.           *)
(***************************************************************************)
EXTENDS Integers, Sequences, FiniteSets, TLC

\* ------------------------------------------------------------------ bounds
MaxGlobalRetry == 2
MaxReserveRetry == 2
MaxInvocations == 2

\* ----------------------------------------------- configuration (defaults)
min_reserve_peak_rate == 20
min_reserve_off_peak_rate == 30
max_reserve == 100
required_energy_peak_rate == 30000
reserve_switch_margin == 100
charge_margin == 1
full_pack_energy == 14000
visible_pack_energy == 95
discharge_efficiency == 95
Scale == 10000

\* ------------------------------------------------- environment value sets
CapVals == {13500, 27000}
CountVals == {0, 1, 2}
DeviceCounts == {0, 1, 2}
SocOffsets == {-2, -1, 1, 2}
BatteryPowerVals == {-101, -100, 101}
SolarPowerVals == {0, 200}
MainSiteCounts == {1}
SiteCounts == {0, 1, 2}
SlotsPerDay == 2
Days == {0, 1}
SampleTimes == {SlotsPerDay, SlotsPerDay + 1, 2 * SlotsPerDay, 2 * SlotsPerDay + 1}
Rates == {1, 60000}
SampleCounts == {0, 1, 2}

NoBattery == [none |-> TRUE]
NoData == [none |-> TRUE]
NoFc == [none |-> TRUE]
EmptyDict == [empty |-> TRUE]
NoError == "none"
NoErr == [kind |-> NoError, telemetry |-> NoData]

VARIABLES
  pc,                               \* position of the single thread of control
  mode,                             \* "peak" | "off_peak" | "none"
  invocations,                      \* public calls made so far
  global_retry_limit,               \* self.global_retry_limit
  set_backup_reserve_retry_limit,   \* self.set_backup_reserve_retry_limit
  cached_teslapy_battery,           \* self._cached_teslapy_battery
  i,                                \* outer loop variable
  index,                            \* inner loop variable
  forecast_tomorrow,                \* local of set_off_peak_mode
  percent_target,                   \* argument of set_backup_reserve_percent
  total_pack_energy,                \* local of set_backup_reserve_percent
  pack_soh,                         \* local of set_backup_reserve_percent
  battery_data,                     \* local of set_backup_reserve_percent
  live_site_data,                   \* last SITE_DATA response
  err,                              \* exception in flight
  result,                           \* outcome of the public call
  hist,                             \* observation counters and history
  calc,                             \* frame of calculate_backup_reserve
  fc,                               \* frame of get_solar_forecast_tomorrow
  solcast_site_ids                  \* number of entries of self._solcast_site_ids

vars == <<pc, mode, invocations, global_retry_limit,
          set_backup_reserve_retry_limit, cached_teslapy_battery, i, index,
          forecast_tomorrow, percent_target, total_pack_energy, pack_soh,
          battery_data, live_site_data, err, result, hist, calc, fc,
          solcast_site_ids>>

cfgVars == <<global_retry_limit, set_backup_reserve_retry_limit,
            solcast_site_ids>>
sbrpLocals == <<percent_target, total_pack_energy, pack_soh, battery_data,
                live_site_data>>

\* ------------------------------------------------------- pure functions

\* Percents are integers throughout, so the int() casts of
\* calculate_backup_reserve and set_backup_reserve_percent have no operator.

\* sum(factors) - (len(factors) - 1), in whole percents.
availability_factor(vis, dis) == (vis + dis) - 100 * (2 - 1)

\* Variant: the loop condition admits equality.
WhileCondInclusive(available, required) == available <= required

\* Variant: the comparison is reversed.
WhileCondFlipped(available, required) == available > required

\* `while available_energy < self.required_energy_peak_rate` (both sides
\* scaled by Scale).
WhileCond(available, required) == available < required

\* `if charge_percent >= self.max_reserve: break`, tested after the increment.
CapReached(percent, ceiling) == percent >= ceiling

\* The locals of calculate_backup_reserve on reaching the while loop, for a
\* battery object holding pack_energy; ret is where the caller continues.
CalcFrame(forecast_production, pack_energy, floor, ceiling, required, vis, dis, ret) ==
  [forecast_production |-> forecast_production,
   total_pack_energy |-> pack_energy,
   floor |-> floor, ceiling |-> ceiling, required |-> required,
   vis |-> vis, dis |-> dis,
   available_energy |-> forecast_production * Scale,
   charge_percent |-> floor,
   pack_energy_increment |-> pack_energy * availability_factor(vis, dis),
   iters |-> 0, ret |-> ret]

\* Times are whole slots since local midnight of day 0; a day has SlotsPerDay
\* slots.  For a clock read on day d: today_start + timedelta(days=1) and
\* today_start + timedelta(days=2).
TomorrowStart(d) == d * SlotsPerDay + 1 * SlotsPerDay
TomorrowEnd(d) == d * SlotsPerDay + 2 * SlotsPerDay

\* Variant: the window is closed at its start.
InWindowClosedStart(t, start, end) == start <= t /\ t < end

\* `if tomorrow_start < forecast_time < tomorrow_end`.
InWindow(t, start, end) == start < t /\ t < end

\* The loop building forecast_blocks from result['forecasts'].
FilterBlocks(forecasts, d) ==
  SelectSeq(forecasts, LAMBDA b : InWindow(b.period_end, TomorrowStart(d), TomorrowEnd(d)))

\* The loop `site_energy_kwh += forecast_block['pv_estimate'] / 2`.  Rates
\* are whole watts, energies are counted in half watt-hours: a block of r
\* watts adds r / 2 Wh, that is r half watt-hours.
RECURSIVE SiteEnergy(_)
SiteEnergy(blocks) ==
  IF blocks = <<>> THEN 0
  ELSE Head(blocks).pv_estimate + SiteEnergy(Tail(blocks))

\* `total_energy_kwh += site_energy_kwh`.
AddSite(total, site_energy) == total + site_energy

\* `int(total_energy_kwh * 1000)`: half watt-hours cut to whole watt-hours
\* (energies are not negative, so truncation rounds down).
ToWh(total_energy) == total_energy \div 2

\* Variant: the power-flow tests come before the margin test.
RoundClassPowerFirst(target, soc, battery_power, solar_power) ==
  IF target > soc /\ battery_power < -reserve_switch_margin
  THEN "ChargingAsExpected"
  ELSE IF target < soc /\ battery_power + solar_power > reserve_switch_margin
  THEN "DischargingAsExpected"
  ELSE IF target - charge_margin <= soc /\ soc <= target + charge_margin
  THEN "WithinMargin"
  ELSE "Indeterminate"

\* The if/elif chain of one convergence round.
RoundClass(target, soc, battery_power, solar_power) ==
  IF target - charge_margin <= soc /\ soc <= target + charge_margin
  THEN "WithinMargin"
  ELSE IF target > soc /\ battery_power < -reserve_switch_margin
  THEN "ChargingAsExpected"
  ELSE IF target < soc /\ battery_power + solar_power > reserve_switch_margin
  THEN "DischargingAsExpected"
  ELSE "Indeterminate"

\* Variant: a margin match breaks on every round.
BreaksRound1Final(idx, cls) ==
  CASE cls = "WithinMargin" -> TRUE
    [] cls = "ChargingAsExpected" -> TRUE
    [] cls = "DischargingAsExpected" -> ~(idx < 2)
    [] OTHER -> FALSE

\* Variant: the provisional rounds extend to round 2.
BreaksLate(idx, cls) ==
  CASE cls = "WithinMargin" -> ~(idx < 3)
    [] cls = "ChargingAsExpected" -> TRUE
    [] cls = "DischargingAsExpected" -> ~(idx < 3)
    [] OTHER -> FALSE

\* Variant: charging is provisional on round 1 like the other two.
BreaksChargingProvisional(idx, cls) ==
  CASE cls = "WithinMargin" -> ~(idx < 2)
    [] cls = "ChargingAsExpected" -> ~(idx < 2)
    [] cls = "DischargingAsExpected" -> ~(idx < 2)
    [] OTHER -> FALSE

\* Variant: discharging breaks on every round.
BreaksDischargingRound1(idx, cls) ==
  CASE cls = "WithinMargin" -> ~(idx < 2)
    [] cls = "ChargingAsExpected" -> TRUE
    [] cls = "DischargingAsExpected" -> TRUE
    [] OTHER -> FALSE

\* Variant: every matching class breaks on every round.
BreaksOnAnyMatch(idx, cls) ==
  CASE cls = "WithinMargin" -> TRUE
    [] cls = "ChargingAsExpected" -> TRUE
    [] cls = "DischargingAsExpected" -> TRUE
    [] OTHER -> FALSE

\* Whether the round leaves the loop with break.
Breaks(idx, cls) ==
  CASE cls = "WithinMargin" -> ~(idx < 2)
    [] cls = "ChargingAsExpected" -> TRUE
    [] cls = "DischargingAsExpected" -> ~(idx < 2)
    [] OTHER -> FALSE

\* Variant: range(1, limit), one round short.
InnerExhaustedEarly(idx, limit) == idx >= limit

\* Variant: range(1, limit + 2), one round too many.
InnerExhaustedLate(idx, limit) == idx > limit + 1

\* range(1, limit + 1) is exhausted when the next value passes the limit.
InnerExhausted(idx, limit) == idx > limit
OuterExhausted(idx, limit) == idx > limit

\* Variant: the except clause never re-raises.
PropagatesNever(idx, limit) == FALSE

\* Variant: the except clause re-raises one attempt early.
PropagatesEarly(idx, limit) == idx >= limit - 1

\* `if i == self.global_retry_limit: raise` of the except clause.
Propagates(idx, limit) == idx = limit

\* Variant: the command carries a value that moves with the round.
CommandValueDrift(target, idx) == target + (idx - 1)

\* The argument of self._teslapy_battery.set_backup_reserve_percent(...).
CommandValue(target, idx) == target

\* pack_soh, truncated to a whole percent.
PackSoh(pack_energy, count) == (100 * pack_energy) \div (full_pack_energy * count)

\* ------------------------------------------------------------ environment
BatteryObjs == [total_pack_energy : CapVals, battery_count : CountVals]
BatteryLists == UNION {[1..n -> BatteryObjs] : n \in DeviceCounts}
SiteData(target) ==
  [percentage_charged : {target + d : d \in SocOffsets} \cap (0..100),
   battery_power : BatteryPowerVals, solar_power : SolarPowerVals]

\* Variant: the assertion accepts any non-empty list.
teslapy_battery_nonempty(cache) ==
  IF cache # NoBattery
  THEN {[err |-> NoError, bat |-> cache, n |-> -1]}
  ELSE {[err |-> "io", bat |-> NoBattery, n |-> -1]}
       \cup {[err |-> IF Len(bl) >= 1 THEN NoError ELSE "precondition",
              bat |-> IF Len(bl) >= 1 THEN bl[1] ELSE NoBattery,
              n |-> Len(bl)]
             : bl \in BatteryLists}

\* The _teslapy_battery property: the outcomes of one access; n is the
\* length of the list battery_list() returned, -1 when it returned none
\* (cached battery, or a failed request).
teslapy_battery(cache) ==
  IF cache # NoBattery
  THEN {[err |-> NoError, bat |-> cache, n |-> -1]}
  ELSE {[err |-> "io", bat |-> NoBattery, n |-> -1]}
       \cup {[err |-> IF Len(bl) = 1 THEN NoError ELSE "precondition",
              bat |-> IF Len(bl) = 1 THEN bl[1] ELSE NoBattery,
              n |-> Len(bl)]
             : bl \in BatteryLists}

\* `assert self._teslapy_battery['battery_count'] > 0`.
HasBatteries(count) == count > 0

\* The forecast provider: a response is a list of forecast blocks.
ForecastBlocks == [period_end : SampleTimes, pv_estimate : Rates]
Responses == UNION {[1..n -> ForecastBlocks] : n \in SampleCounts}

\* The locals of get_solar_forecast_tomorrow before its first site: k is
\* the next site of self._solcast_site_ids.items(), total_energy the running
\* total in half watt-hours, day the latest clock reading.  requests, days
\* and expected record what happened: the sites requested, the days the
\* window was computed from, whether a request failed, and the energy of the
\* blocks that lie strictly inside the window their site was filtered against.
FcFrame(ret) ==
  [k |-> 1, total_energy |-> 0, day |-> 0, requests |-> <<>>, days |-> {},
   expected |-> 0, failed |-> FALSE, ret |-> ret]

\* A finished frame is kept only by the isolated call.
DropFrame(f) == IF f.ret = "fc_done" THEN f ELSE NoFc

\* Sum of the rates of the blocks of a response at the given indexes.
RECURSIVE SumRates(_, _)
SumRates(resp, idxs) ==
  IF idxs = {} THEN 0
  ELSE LET j == CHOOSE x \in idxs : TRUE
       IN resp[j].pv_estimate + SumRates(resp, idxs \ {j})

\* Reference value of one site's contribution: the rates of exactly the
\* blocks whose period_end lies strictly between tomorrow's start and end.
ExpectedSite(resp, d) ==
  SumRates(resp, {j \in DOMAIN resp :
                    /\ resp[j].period_end > (d + 1) * SlotsPerDay
                    /\ resp[j].period_end < (d + 2) * SlotsPerDay})

NoSummary == [none |-> TRUE]
Hist0 == [cmds |-> 0, polls |-> 0, attempts |-> 0, failures |-> 0,
          totalCmds |-> 0, settleSleeps |-> 0, outerSleeps |-> 0,
          fetches |-> 0, round1 |-> "none", lastClass |-> "none",
          lastIndex |-> 0, converged |-> FALSE,
          fetched |-> FALSE, computed |-> FALSE, listLen |-> -1,
          firstTarget |-> -1, lastCmd |-> -1, refreshed |-> FALSE,
          precondFails |-> 0,
          calls |-> <<>>]
NoneValue == [none |-> TRUE]
NoResult == [kind |-> "none", value |-> NoneValue, printed |-> NoSummary,
             error |-> NoErr]
NoCalc == [none |-> TRUE]

\* ---------------------------------------------------------------- state
Init ==
  /\ pc = "idle"
  /\ mode = "none"
  /\ invocations = 0
  /\ global_retry_limit \in 0..MaxGlobalRetry
  /\ set_backup_reserve_retry_limit \in 0..MaxReserveRetry
  /\ cached_teslapy_battery = NoBattery
  /\ i = 0
  /\ index = 0
  /\ forecast_tomorrow = 0
  /\ percent_target = 0
  /\ total_pack_energy = 0
  /\ pack_soh = 0
  /\ battery_data = EmptyDict
  /\ live_site_data = NoData
  /\ err = NoErr
  /\ result = NoResult
  /\ hist = Hist0
  /\ calc = NoCalc
  /\ fc = NoFc
  /\ solcast_site_ids \in MainSiteCounts

\* An exception leaves the try body for the except clause.
Raise(kind, telemetry) ==
  /\ pc' = "except"
  /\ err' = [kind |-> kind, telemetry |-> telemetry]

\* ------------------------------------------------------- public methods
\* A caller invokes set_peak_mode or set_off_peak_mode.
Invoke(m) ==
  /\ pc \in {"idle", "done"}
  /\ invocations < MaxInvocations
  /\ invocations' = invocations + 1
  /\ mode' = m
  /\ pc' = "outer_for"
  /\ i' = 1
  /\ index' = 0
  /\ forecast_tomorrow' = 0
  /\ percent_target' = 0
  /\ total_pack_energy' = 0
  /\ pack_soh' = 0
  /\ battery_data' = EmptyDict
  /\ live_site_data' = NoData
  /\ err' = NoErr
  /\ result' = NoResult
  /\ hist' = Hist0
  /\ UNCHANGED <<cfgVars, fc, cached_teslapy_battery, calc>>

set_peak_mode == Invoke("peak")
set_off_peak_mode == Invoke("off_peak")

\* Variant: the off-peak attempt goes straight to the command with the floor
\* as its target, without fetching a forecast.
OuterForSkipForecast ==
  /\ pc = "outer_for"
  /\ IF OuterExhausted(i, global_retry_limit)
     THEN /\ pc' = "done"
          /\ result' = [kind |-> "returned", value |-> NoneValue,
                        printed |-> NoSummary, error |-> NoErr]
          /\ UNCHANGED <<hist, percent_target>>
     ELSE /\ hist' = [hist EXCEPT !.attempts = @ + 1, !.cmds = 0, !.polls = 0,
                            !.round1 = "none", !.lastClass = "none",
                            !.lastIndex = 0, !.fetched = FALSE,
                            !.computed = FALSE, !.listLen = -1,
                            !.lastCmd = -1, !.refreshed = FALSE]
          /\ pc' = "sbrp_discover"
          /\ percent_target' = IF mode = "peak" THEN min_reserve_peak_rate
                               ELSE min_reserve_off_peak_rate
          /\ UNCHANGED result
  /\ UNCHANGED <<mode, invocations, cfgVars, fc, cached_teslapy_battery, i, index,
                 forecast_tomorrow, total_pack_energy, pack_soh, battery_data,
                 live_site_data, err, calc>>

\* Variant: the peak attempt fetches a forecast and computes its target like
\* the off-peak attempt.
OuterForPeakFetches ==
  /\ pc = "outer_for"
  /\ IF OuterExhausted(i, global_retry_limit)
     THEN /\ pc' = "done"
          /\ result' = [kind |-> "returned", value |-> NoneValue,
                        printed |-> NoSummary, error |-> NoErr]
          /\ UNCHANGED <<hist, percent_target>>
     ELSE /\ hist' = [hist EXCEPT !.attempts = @ + 1, !.cmds = 0, !.polls = 0,
                            !.round1 = "none", !.lastClass = "none",
                            !.lastIndex = 0, !.fetched = FALSE,
                            !.computed = FALSE, !.listLen = -1,
                            !.lastCmd = -1, !.refreshed = FALSE]
          /\ pc' = "forecast"
          /\ UNCHANGED <<percent_target, result>>
  /\ UNCHANGED <<mode, invocations, cfgVars, fc, cached_teslapy_battery, i, index,
                 forecast_tomorrow, total_pack_energy, pack_soh, battery_data,
                 live_site_data, err, calc>>

\* Variant: only the first off-peak attempt fetches the forecast; a retry
\* goes straight to the calculation.
OuterForReuseForecast ==
  /\ pc = "outer_for"
  /\ IF OuterExhausted(i, global_retry_limit)
     THEN /\ pc' = "done"
          /\ result' = [kind |-> "returned", value |-> NoneValue,
                        printed |-> NoSummary, error |-> NoErr]
          /\ UNCHANGED <<hist, percent_target>>
     ELSE /\ hist' = [hist EXCEPT !.attempts = @ + 1, !.cmds = 0, !.polls = 0,
                            !.round1 = "none", !.lastClass = "none",
                            !.lastIndex = 0, !.fetched = FALSE,
                            !.computed = FALSE, !.listLen = -1,
                            !.lastCmd = -1, !.refreshed = FALSE]
          /\ IF mode = "peak"
             THEN /\ pc' = "sbrp_discover"
                  /\ percent_target' = min_reserve_peak_rate
             ELSE /\ pc' = IF i = 1 THEN "forecast" ELSE "calc"
                  /\ UNCHANGED percent_target
          /\ UNCHANGED result
  /\ UNCHANGED <<mode, invocations, cfgVars, fc, cached_teslapy_battery, i, index,
                 forecast_tomorrow, total_pack_energy, pack_soh, battery_data,
                 live_site_data, err, calc>>

\* Head of `for i in range(1, self.global_retry_limit + 1)`; an exhausted
\* loop falls off the end of the method, which returns None.
OuterFor ==
  /\ pc = "outer_for"
  /\ IF OuterExhausted(i, global_retry_limit)
     THEN /\ pc' = "done"
          /\ result' = [kind |-> "returned", value |-> NoneValue,
                        printed |-> NoSummary, error |-> NoErr]
          /\ UNCHANGED <<hist, percent_target>>
     ELSE /\ hist' = [hist EXCEPT !.attempts = @ + 1, !.cmds = 0, !.polls = 0,
                            !.round1 = "none", !.lastClass = "none",
                            !.lastIndex = 0, !.fetched = FALSE,
                            !.computed = FALSE, !.listLen = -1,
                            !.lastCmd = -1, !.refreshed = FALSE]
          /\ IF mode = "peak"
             THEN /\ pc' = "sbrp_discover"
                  /\ percent_target' = min_reserve_peak_rate
             ELSE /\ pc' = "forecast"
                  /\ UNCHANGED percent_target
          /\ UNCHANGED result
  /\ UNCHANGED <<mode, invocations, cfgVars, fc, cached_teslapy_battery, i, index,
                 forecast_tomorrow, total_pack_energy, pack_soh, battery_data,
                 live_site_data, err, calc>>

\* forecast_tomorrow = self.get_solar_forecast_tomorrow(): the call, up to
\* `total_energy_kwh = 0.0`.
GetForecast ==
  /\ pc = "forecast"
  /\ hist' = [hist EXCEPT !.fetches = @ + 1]
  /\ fc' = FcFrame("calc")
  /\ pc' = "forecast_site"
  /\ UNCHANGED <<mode, invocations, cfgVars, cached_teslapy_battery, i, index,
                 forecast_tomorrow, sbrpLocals, err, result, calc>>

\* Variant: a failed request is skipped and the loop goes on to the next
\* site.
ForecastSiteSkipFailed ==
  /\ pc = "forecast_site"
  /\ fc.k <= solcast_site_ids
  /\ \/ /\ fc' = [fc EXCEPT !.k = @ + 1, !.requests = Append(@, fc.k),
                              !.failed = TRUE]
        /\ UNCHANGED <<pc, err>>
     \/ \E resp \in Responses, d \in {x \in Days : x >= fc.day} :
          /\ fc' = [fc EXCEPT
                      !.k = @ + 1,
                      !.day = d,
                      !.total_energy = AddSite(@, SiteEnergy(FilterBlocks(resp, d))),
                      !.requests = Append(@, fc.k),
                      !.days = @ \cup {d},
                      !.expected = @ + ExpectedSite(resp, d)]
          /\ UNCHANGED <<pc, err>>
  /\ UNCHANGED <<mode, invocations, cfgVars, cached_teslapy_battery, i, index,
                 forecast_tomorrow, sbrpLocals, result, hist, calc>>

\* One iteration of `for site_name, site_id in self._solcast_site_ids.items()`:
\* the request, the clock reading and the window, the two block loops and
\* the addition to the total.  A failed request raises out of the method.
ForecastSite ==
  /\ pc = "forecast_site"
  /\ fc.k <= solcast_site_ids
  /\ \/ /\ Raise("io", NoData)
        /\ fc' = DropFrame([fc EXCEPT !.requests = Append(@, fc.k),
                                      !.failed = TRUE])
     \/ \E resp \in Responses, d \in {x \in Days : x >= fc.day} :
          /\ fc' = [fc EXCEPT
                      !.k = @ + 1,
                      !.day = d,
                      !.total_energy = AddSite(@, SiteEnergy(FilterBlocks(resp, d))),
                      !.requests = Append(@, fc.k),
                      !.days = @ \cup {d},
                      !.expected = @ + ExpectedSite(resp, d)]
          /\ UNCHANGED <<pc, err>>
  /\ UNCHANGED <<mode, invocations, cfgVars, cached_teslapy_battery, i, index,
                 forecast_tomorrow, sbrpLocals, result, hist, calc>>

\* The loop is exhausted: `return int(total_energy_kwh * 1000)`.
ForecastReturn ==
  /\ pc = "forecast_site"
  /\ fc.k > solcast_site_ids
  /\ forecast_tomorrow' = ToWh(fc.total_energy)
  /\ hist' = [hist EXCEPT !.fetched = TRUE]
  /\ fc' = DropFrame(fc)
  /\ pc' = fc.ret
  /\ UNCHANGED <<mode, invocations, cfgVars, cached_teslapy_battery, i, index,
                 sbrpLocals, err, result, calc>>

\* calculate_backup_reserve(forecast_tomorrow), up to the while loop: the
\* pack energy is whatever the battery object holds at this moment.
CalcEnter ==
  /\ pc = "calc"
  /\ \E o \in teslapy_battery(cached_teslapy_battery) :
       IF o.err # NoError
       THEN /\ Raise(o.err, NoData)
            /\ hist' = [hist EXCEPT !.listLen = o.n]
            /\ UNCHANGED <<cached_teslapy_battery, calc>>
       ELSE /\ cached_teslapy_battery' = o.bat
            /\ hist' = [hist EXCEPT !.listLen = o.n]
            /\ calc' = CalcFrame(forecast_tomorrow, o.bat.total_pack_energy,
                                 min_reserve_off_peak_rate, max_reserve,
                                 required_energy_peak_rate,
                                 visible_pack_energy, discharge_efficiency,
                                 "sbrp_discover")
            /\ pc' = "calc_while"
            /\ UNCHANGED err
  /\ UNCHANGED <<mode, invocations, cfgVars, fc, i, index, forecast_tomorrow,
                 sbrpLocals, result>>

\* One evaluation of the while condition and, if it holds, one loop body.
CalcWhile ==
  /\ pc = "calc_while"
  /\ IF WhileCond(calc.available_energy, calc.required * Scale)
     THEN /\ calc' = [calc EXCEPT
                        !.available_energy = @ + calc.pack_energy_increment,
                        !.charge_percent = @ + 1,
                        !.iters = @ + 1]
          /\ pc' = IF CapReached(calc.charge_percent + 1, calc.ceiling)
                   THEN "calc_return" ELSE "calc_while"
     ELSE /\ pc' = "calc_return"
          /\ UNCHANGED calc
  /\ UNCHANGED <<mode, invocations, cfgVars, fc, cached_teslapy_battery, i, index,
                 forecast_tomorrow, sbrpLocals, err, result, hist>>

\* `return int(charge_percent)`; in set_off_peak_mode the value becomes the
\* argument of set_backup_reserve_percent.
CalcReturn ==
  /\ pc = "calc_return"
  /\ pc' = calc.ret
  /\ IF calc.ret = "sbrp_discover"
     THEN /\ percent_target' = calc.charge_percent
          /\ calc' = NoCalc
          /\ hist' = [hist EXCEPT !.computed = TRUE]
     ELSE UNCHANGED <<percent_target, calc, hist>>
  /\ UNCHANGED <<mode, invocations, cfgVars, fc, cached_teslapy_battery, i, index,
                 forecast_tomorrow, total_pack_energy, pack_soh, battery_data,
                 live_site_data, err, result>>

\* ------------------------------------------- set_backup_reserve_percent
\* Entry: the first access of self._teslapy_battery (device discovery
\* unless a battery object is cached).
SbrpDiscover ==
  /\ pc = "sbrp_discover"
  /\ \E o \in teslapy_battery(cached_teslapy_battery) :
       /\ hist' = [hist EXCEPT !.cmds = 0, !.polls = 0, !.round1 = "none",
                               !.lastClass = "none", !.lastIndex = 0,
                               !.listLen = IF cached_teslapy_battery = NoBattery
                                           THEN o.n ELSE @]
       /\ IF o.err # NoError
          THEN /\ Raise(o.err, NoData)
               /\ UNCHANGED cached_teslapy_battery
          ELSE /\ cached_teslapy_battery' = o.bat
               /\ pc' = "sbrp_get_data"
               /\ UNCHANGED err
  /\ UNCHANGED <<mode, invocations, cfgVars, fc, i, index, forecast_tomorrow,
                 sbrpLocals, result, calc>>

\* get_battery_data() refreshes the battery object; then the battery_count
\* assertion, the state of health and `battery_data = {}`.
SbrpGetBatteryData ==
  /\ pc = "sbrp_get_data"
  /\ \/ /\ Raise("io", NoData)
        /\ UNCHANGED <<cached_teslapy_battery, total_pack_energy, pack_soh,
                       battery_data, index, hist>>
     \/ \E b \in BatteryObjs :
          /\ cached_teslapy_battery' = b
          /\ hist' = [hist EXCEPT !.refreshed = TRUE]
          /\ IF ~HasBatteries(b.battery_count)
             THEN /\ Raise("precondition", NoData)
                  /\ UNCHANGED <<total_pack_energy, pack_soh, battery_data,
                                 index>>
             ELSE /\ total_pack_energy' = b.total_pack_energy
                  /\ pack_soh' = PackSoh(b.total_pack_energy, b.battery_count)
                  /\ battery_data' = EmptyDict
                  /\ index' = 1
                  /\ pc' = "inner_for"
                  /\ UNCHANGED err
  /\ UNCHANGED <<mode, invocations, cfgVars, fc, i, forecast_tomorrow,
                 percent_target, live_site_data, result, calc>>

\* Head of `for index in range(1, self.set_backup_reserve_retry_limit+1)`;
\* the else clause of the loop prints battery_data and raises.
InnerFor ==
  /\ pc = "inner_for"
  /\ IF InnerExhausted(index, set_backup_reserve_retry_limit)
     THEN Raise("convergence", battery_data)
     ELSE /\ pc' = "set_reserve"
          /\ UNCHANGED err
  /\ UNCHANGED <<mode, invocations, cfgVars, fc, cached_teslapy_battery, i, index,
                 forecast_tomorrow, sbrpLocals, result, hist, calc>>

\* self._teslapy_battery.set_backup_reserve_percent(percent_target)
SetReserve ==
  /\ pc = "set_reserve"
  /\ hist' = [hist EXCEPT !.cmds = @ + 1, !.totalCmds = @ + 1,
                          !.lastCmd = CommandValue(percent_target, index),
                          !.firstTarget = IF @ = -1
                                          THEN CommandValue(percent_target, index)
                                          ELSE @]
  /\ \/ Raise("io", NoData)
     \/ /\ pc' = "sleep"
        /\ UNCHANGED err
  /\ UNCHANGED <<mode, invocations, cfgVars, fc, cached_teslapy_battery, i, index,
                 forecast_tomorrow, sbrpLocals, result, calc>>

\* time.sleep(self.set_backup_reserve_response_sleep)
SettleSleep ==
  /\ pc = "sleep"
  /\ hist' = [hist EXCEPT !.settleSleeps = @ + 1]
  /\ pc' = "site_data"
  /\ UNCHANGED <<mode, invocations, cfgVars, fc, cached_teslapy_battery, i, index,
                 forecast_tomorrow, sbrpLocals, err, result, calc>>

\* live_site_data = self._teslapy_battery.api('SITE_DATA')['response']
ReadSiteData ==
  /\ pc = "site_data"
  /\ hist' = [hist EXCEPT !.polls = @ + 1]
  /\ \/ /\ Raise("io", NoData)
        /\ UNCHANGED live_site_data
     \/ /\ live_site_data' \in SiteData(percent_target)
        /\ pc' = "classify"
        /\ UNCHANGED err
  /\ UNCHANGED <<mode, invocations, cfgVars, fc, cached_teslapy_battery, i, index,
                 forecast_tomorrow, percent_target, total_pack_energy,
                 pack_soh, battery_data, result, calc>>

\* The if/elif chain: break, or the next round.
Classify ==
  /\ pc = "classify"
  /\ LET cls == RoundClass(percent_target, live_site_data.percentage_charged,
                           live_site_data.battery_power,
                           live_site_data.solar_power)
     IN /\ hist' = [hist EXCEPT !.lastClass = cls, !.lastIndex = index,
                      !.round1 = IF index = 1 THEN cls ELSE @]
        /\ IF Breaks(index, cls)
           THEN /\ pc' = "sbrp_return"
                /\ UNCHANGED index
           ELSE /\ pc' = "inner_for"
                /\ index' = index + 1
  /\ UNCHANGED <<mode, invocations, cfgVars, fc, cached_teslapy_battery, i,
                 forecast_tomorrow, sbrpLocals, err, result, calc>>

\* The status dict returned by set_backup_reserve_percent.
Status ==
  [soc |-> live_site_data.percentage_charged, reserve |-> percent_target,
   capacity |-> total_pack_energy, soh |-> pack_soh]

\* What _print_summary(**status) prints: the four status values, and the
\* forecast when set_off_peak_mode added a truthy (non-zero) one.
PrintSummary(status, m, forecast) ==
  [soc |-> status.soc, reserve |-> status.reserve,
   capacity |-> status.capacity, soh |-> status.soh,
   solar_forecast |-> IF m = "off_peak" /\ forecast # 0
                      THEN {forecast} ELSE {}]

\* return of the status to the public method, _print_summary(**status) and
\* the break of the else clause of the try statement; the public method
\* then falls off its end and returns None.
SbrpReturn ==
  /\ pc = "sbrp_return"
  /\ hist' = [hist EXCEPT !.converged = TRUE]
  /\ result' = [kind |-> "ok", value |-> NoneValue,
                printed |-> PrintSummary(Status, mode, forecast_tomorrow),
                error |-> NoErr]
  /\ pc' = "done"
  /\ UNCHANGED <<mode, invocations, cfgVars, fc, cached_teslapy_battery, i, index,
                 forecast_tomorrow, sbrpLocals, err, calc>>

\* 1 for a failed assertion (device count, battery count), else 0.
PrecondCount(e) == IF e.kind = "precondition" THEN 1 ELSE 0

\* Variant: a failed assertion is not retried by the outer loop.
ExceptPreconditionFatal ==
  /\ pc = "except"
  /\ IF Propagates(i, global_retry_limit) \/ err.kind = "precondition"
     THEN /\ pc' = "done"
          /\ result' = [kind |-> "raised", value |-> NoneValue,
                        printed |-> NoSummary, error |-> err]
          /\ hist' = [hist EXCEPT !.failures = @ + 1,
                                  !.precondFails = @ + PrecondCount(err)]
          /\ UNCHANGED <<i, index, forecast_tomorrow, sbrpLocals, err>>
     ELSE /\ hist' = [hist EXCEPT !.failures = @ + 1, !.outerSleeps = @ + 1,
                                  !.precondFails = @ + PrecondCount(err)]
          /\ i' = i + 1
          /\ pc' = "outer_for"
          /\ index' = 0
          /\ forecast_tomorrow' = 0
          /\ percent_target' = 0
          /\ total_pack_energy' = 0
          /\ pack_soh' = 0
          /\ battery_data' = EmptyDict
          /\ live_site_data' = NoData
          /\ err' = NoErr
          /\ UNCHANGED result
  /\ UNCHANGED <<mode, invocations, cfgVars, fc, cached_teslapy_battery, calc>>

\* except Exception: re-raise on the last attempt, else sleep and loop.  The
\* locals of the failed attempt are dead once the next attempt starts.
Except ==
  /\ pc = "except"
  /\ IF Propagates(i, global_retry_limit)
     THEN /\ pc' = "done"
          /\ result' = [kind |-> "raised", value |-> NoneValue,
                        printed |-> NoSummary, error |-> err]
          /\ hist' = [hist EXCEPT !.failures = @ + 1,
                                  !.precondFails = @ + PrecondCount(err)]
          /\ UNCHANGED <<i, index, forecast_tomorrow, sbrpLocals, err>>
     ELSE /\ hist' = [hist EXCEPT !.failures = @ + 1, !.outerSleeps = @ + 1,
                                  !.precondFails = @ + PrecondCount(err)]
          /\ i' = i + 1
          /\ pc' = "outer_for"
          /\ index' = 0
          /\ forecast_tomorrow' = 0
          /\ percent_target' = 0
          /\ total_pack_energy' = 0
          /\ pack_soh' = 0
          /\ battery_data' = EmptyDict
          /\ live_site_data' = NoData
          /\ err' = NoErr
          /\ UNCHANGED result
  /\ UNCHANGED <<mode, invocations, cfgVars, fc, cached_teslapy_battery, calc>>

Next ==
  \/ set_peak_mode
  \/ set_off_peak_mode
  \/ OuterFor
  \/ GetForecast
  \/ ForecastSite
  \/ ForecastReturn
  \/ CalcEnter
  \/ CalcWhile
  \/ CalcReturn
  \/ SbrpDiscover
  \/ SbrpGetBatteryData
  \/ InnerFor
  \/ SetReserve
  \/ SettleSleep
  \/ ReadSiteData
  \/ Classify
  \/ SbrpReturn
  \/ Except

Spec == Init /\ [][Next]_vars

TypeOK ==
  /\ pc \in {"idle", "outer_for", "forecast", "calc", "sbrp_discover",
             "sbrp_get_data", "inner_for", "set_reserve", "sleep",
             "site_data", "classify", "sbrp_return", "except", "done",
             "calc_ready", "calc_while", "calc_return", "calc_done",
             "forecast_site", "fc_done", "calc_again"}
  /\ i \in 0..(MaxGlobalRetry + 2)
  /\ index \in 0..(MaxReserveRetry + 2)

\* --------------------------------- calculate_backup_reserve in isolation
CalcForecasts == {0, 20045, 20046, 29999, 30000, 31000}
CalcCaps == {0, 13500, 14000}
FloorVals == {0, 20, 30, 100}
CeilVals == {20, 90, 100}
RequiredVals == {0, 30000}
VisibleVals == {95, 100}
DischargeVals == {95}

CalcInputs ==
  [forecast_production : CalcForecasts, total_pack_energy : CalcCaps,
   floor : FloorVals, ceiling : CeilVals, required : RequiredVals,
   vis : VisibleVals, dis : DischargeVals]

\* A call of calculate_backup_reserve about to reach its loop, for every
\* configuration and battery object of the bounded sets.
InitCalc ==
  /\ pc = "calc_while"
  /\ mode = "none"
  /\ invocations = 0
  /\ global_retry_limit = 0
  /\ set_backup_reserve_retry_limit = 0
  /\ cached_teslapy_battery = NoBattery
  /\ i = 0
  /\ index = 0
  /\ forecast_tomorrow = 0
  /\ percent_target = 0
  /\ total_pack_energy = 0
  /\ pack_soh = 0
  /\ battery_data = EmptyDict
  /\ live_site_data = NoData
  /\ err = NoErr
  /\ result = NoResult
  /\ hist = Hist0
  /\ fc = NoFc
  /\ solcast_site_ids = 0
  /\ \E in \in CalcInputs :
       calc = CalcFrame(in.forecast_production, in.total_pack_energy,
                        in.floor, in.ceiling, in.required, in.vis, in.dis,
                        "calc_done")

NextCalc ==
  \/ CalcWhile
  \/ CalcReturn

SpecCalc == InitCalc /\ [][NextCalc]_vars

\* ------------------- calculate_backup_reserve called twice in succession
\* A first call about to reach its loop; a second call follows it.
InitCalcPair ==
  /\ pc = "calc_while"
  /\ mode = "none"
  /\ invocations = 0
  /\ global_retry_limit = 0
  /\ set_backup_reserve_retry_limit = 0
  /\ cached_teslapy_battery = NoBattery
  /\ i = 0
  /\ index = 0
  /\ forecast_tomorrow = 0
  /\ percent_target = 0
  /\ total_pack_energy = 0
  /\ pack_soh = 0
  /\ battery_data = EmptyDict
  /\ live_site_data = NoData
  /\ err = NoErr
  /\ result = NoResult
  /\ hist = Hist0
  /\ fc = NoFc
  /\ solcast_site_ids = 0
  /\ \E in \in CalcInputs :
       calc = CalcFrame(in.forecast_production, in.total_pack_energy,
                        in.floor, in.ceiling, in.required, in.vis, in.dis,
                        "calc_again")

\* The second call: the same battery object, loss factors, floor and
\* ceiling, another forecast and another required energy.  The first call's
\* frame is remembered in hist.calls.
CalcAgain ==
  /\ pc = "calc_again"
  /\ hist' = [hist EXCEPT !.calls = Append(@, calc)]
  /\ \E f \in CalcForecasts, r \in RequiredVals :
       calc' = CalcFrame(f, calc.total_pack_energy, calc.floor, calc.ceiling,
                         r, calc.vis, calc.dis, "calc_done")
  /\ pc' = "calc_while"
  /\ UNCHANGED <<mode, invocations, cfgVars, fc, cached_teslapy_battery, i, index,
                 forecast_tomorrow, sbrpLocals, err, result>>

NextCalcPair ==
  \/ CalcWhile
  \/ CalcReturn
  \/ CalcAgain

SpecCalcPair == InitCalcPair /\ [][NextCalcPair]_vars

\* ------------------------------ get_solar_forecast_tomorrow in isolation
\* A direct call of the public method, about to reach its site loop, for
\* every number of configured sites.
InitForecast ==
  /\ pc = "forecast_site"
  /\ mode = "none"
  /\ invocations = 0
  /\ global_retry_limit = 0
  /\ set_backup_reserve_retry_limit = 0
  /\ cached_teslapy_battery = NoBattery
  /\ i = 0
  /\ index = 0
  /\ forecast_tomorrow = 0
  /\ percent_target = 0
  /\ total_pack_energy = 0
  /\ pack_soh = 0
  /\ battery_data = EmptyDict
  /\ live_site_data = NoData
  /\ err = NoErr
  /\ result = NoResult
  /\ hist = Hist0
  /\ calc = NoCalc
  /\ fc = FcFrame("fc_done")
  /\ solcast_site_ids \in SiteCounts

NextForecast ==
  \/ ForecastSite
  \/ ForecastReturn

SpecForecast == InitForecast /\ [][NextForecast]_vars

\* ------------------------------------------------------------ properties
SuccessClasses == {"WithinMargin", "ChargingAsExpected", "DischargingAsExpected"}

\* Class of the telemetry just read (meaningful at pc = "classify").
CurClass ==
  IF live_site_data = NoData THEN "none"
  ELSE RoundClass(percent_target, live_site_data.percentage_charged,
                  live_site_data.battery_power, live_site_data.solar_power)

\* C1: a round-1 WithinMargin never ends the call: the loop goes on to round
\* 2, and every return after a round-1 WithinMargin follows at least two
\* set-reserve commands.
C1_Round1MarginNotFinal ==
  /\ [](pc = "sbrp_return" /\ hist.round1 = "WithinMargin" => hist.cmds >= 2)
  /\ [][pc = "classify" /\ index = 1 /\ CurClass = "WithinMargin"
        => pc' = "inner_for" /\ index' = 2]_vars

C1_Witness ==
  /\ pc = "sbrp_return"
  /\ hist.round1 = "WithinMargin"
  /\ hist.cmds = 2

\* C2: a round with index >= 2 that observes WithinMargin, ChargingAsExpected
\* or DischargingAsExpected ends the loop with success at once: the call
\* returns and issues no further command or telemetry read.
C2_LaterRoundTerminates ==
  /\ [][pc = "classify" /\ index >= 2 /\ CurClass \in SuccessClasses
        => /\ pc' = "sbrp_return"
           /\ hist'.cmds = hist.cmds
           /\ hist'.polls = hist.polls]_vars
  /\ [][pc = "sbrp_return"
        => /\ pc' = "done"
           /\ result'.kind = "ok"
           /\ hist'.cmds = hist.cmds
           /\ hist'.polls = hist.polls
           /\ hist'.totalCmds = hist.totalCmds]_vars

C2_Witness ==
  /\ pc = "done"
  /\ result.kind = "ok"
  /\ hist.lastIndex = 2
  /\ hist.lastClass = "DischargingAsExpected"
  /\ hist.cmds = 2
  /\ hist.polls = 2

\* C3: the convergence error is raised exactly when all N rounds ended
\* without a break; it then follows exactly N commands and N polls, and no
\* call issues more than N of either.
C3_ConvergenceErrorIffExhausted ==
  /\ [](/\ hist.cmds <= set_backup_reserve_retry_limit
        /\ hist.polls <= set_backup_reserve_retry_limit
        /\ (pc = "except" /\ err.kind = "convergence"
              => /\ hist.cmds = set_backup_reserve_retry_limit
                 /\ hist.polls = set_backup_reserve_retry_limit
                 /\ hist.lastIndex = set_backup_reserve_retry_limit
                 /\ ~Breaks(hist.lastIndex, hist.lastClass))
        /\ (pc = "sbrp_return" => Breaks(hist.lastIndex, hist.lastClass)))
  /\ [][pc = "inner_for" /\ index = set_backup_reserve_retry_limit + 1
        => pc' = "except" /\ err'.kind = "convergence"]_vars
  /\ [][pc = "inner_for" /\ index <= set_backup_reserve_retry_limit
        => pc' = "set_reserve"]_vars

C3_Witness ==
  /\ pc = "except"
  /\ err.kind = "convergence"
  /\ set_backup_reserve_retry_limit = 2
  /\ hist.cmds = 2
  /\ hist.polls = 2

\* C4: the convergence error carries the telemetry read in the last round.
C4_ErrorCarriesLastTelemetry ==
  pc = "except" /\ err.kind = "convergence"
      /\ set_backup_reserve_retry_limit >= 1
    => err.telemetry = live_site_data

\* C5: an error on attempt i < global_retry_limit is caught and the next
\* attempt starts; an error on attempt i = global_retry_limit reaches the
\* caller; there are never more than global_retry_limit attempts; a
\* successful attempt is the last one and no command follows it.
C5_OuterRetry ==
  /\ [](/\ hist.attempts <= global_retry_limit
        /\ (pc = "done" /\ result.kind = "raised"
              => /\ hist.attempts = global_retry_limit
                 /\ hist.failures = global_retry_limit
                 /\ result.error = err
                 /\ err.kind # NoError)
        /\ (pc = "done" /\ result.kind = "ok"
              => hist.attempts = hist.failures + 1))
  /\ [][pc = "except" /\ i < global_retry_limit
        => /\ pc' = "outer_for"
           /\ i' = i + 1
           /\ result'.kind = "none"
           /\ hist'.outerSleeps = hist.outerSleeps + 1]_vars
  /\ [][pc = "except" /\ i = global_retry_limit
        => /\ pc' = "done"
           /\ result'.kind = "raised"
           /\ result'.error = err]_vars
  /\ [][pc = "outer_for" /\ i <= global_retry_limit
        => hist'.attempts = hist.attempts + 1]_vars
  /\ [][pc = "sbrp_return"
        => /\ pc' = "done"
           /\ hist'.attempts = hist.attempts
           /\ hist'.totalCmds = hist.totalCmds]_vars
  /\ [][pc = "done" => invocations' = invocations + 1 /\ hist' = Hist0]_vars

C5_Witness ==
  /\ pc = "done"
  /\ result.kind = "raised"
  /\ global_retry_limit = 2
  /\ hist.attempts = 2
  /\ hist.outerSleeps = 1

\* What a transition that ended without an error has shown of its last
\* attempt: the state of charge of the last poll, the target that was set,
\* the capacity and state of health read at the start of that attempt, and
\* a last round that allowed the break.
SummaryOfLastAttempt(summary) ==
  /\ summary # NoSummary
  /\ summary # NoneValue
  /\ summary.soc = live_site_data.percentage_charged
  /\ summary.reserve = percent_target
  /\ summary.capacity = cached_teslapy_battery.total_pack_energy
  /\ summary.soh = PackSoh(cached_teslapy_battery.total_pack_energy,
                           cached_teslapy_battery.battery_count)
  /\ Breaks(hist.lastIndex,
            RoundClass(summary.reserve, summary.soc,
                       live_site_data.battery_power,
                       live_site_data.solar_power))

\* C6 as stated: a transition whose attempts failed fewer than
\* global_retry_limit times ends without an error and returns the status
\* summary of its successful attempt to the caller.
C6_ReturnsSummary ==
  pc = "done" /\ hist.failures < global_retry_limit
    => /\ result.kind = "ok"
       /\ SummaryOfLastAttempt(result.value)

\* C6 amended: a transition whose attempts failed fewer than
\* global_retry_limit times ends without an error and prints the status
\* summary of its successful attempt; the value it returns is None.
C6_SucceedsAfterTransientFailures ==
  pc = "done" /\ hist.failures < global_retry_limit
    => /\ result.kind = "ok"
       /\ hist.converged
       /\ hist.attempts = hist.failures + 1
       /\ SummaryOfLastAttempt(result.printed)
       /\ result.value = NoneValue

C6_Witness ==
  /\ pc = "done"
  /\ result.kind = "ok"
  /\ hist.failures = 1
  /\ global_retry_limit = 2
  /\ result.printed # NoSummary

\* C7: a transition that does not raise has converged: it ends either with
\* an error or with a status summary after a successful convergence.
C7_NoSilentFailure ==
  pc = "done"
    => \/ result.kind = "raised"
       \/ result.kind = "ok" /\ hist.converged

\* C8: the reserve returned by calculate_backup_reserve lies between the
\* floor and the ceiling (read over configurations with floor <= ceiling,
\* where that interval is not empty).
C8_WithinFloorAndCeiling ==
  pc = "calc_done" /\ calc.floor <= calc.ceiling
    => calc.floor <= calc.charge_percent /\ calc.charge_percent <= calc.ceiling

\* C9: a forecast that covers the required energy yields exactly the floor,
\* whatever the capacity, the loss factors and the ceiling.
C9_NoDeficitGivesFloor ==
  pc = "calc_done" /\ calc.forecast_production >= calc.required
    => calc.charge_percent = calc.floor /\ calc.iters = 0

C9_Witness ==
  /\ pc = "calc_done"
  /\ calc.forecast_production = 30000
  /\ calc.required = 30000
  /\ calc.total_pack_energy = 14000
  /\ calc.floor = 20
  /\ calc.ceiling = 100
  /\ calc.charge_percent = 20

\* C10: a deficit that (ceiling - floor - 1) increments do not cover yields
\* exactly the ceiling (read over configurations with floor <= ceiling).
C10_UncoveredDeficitGivesCeiling ==
  pc = "calc_done" /\ calc.floor <= calc.ceiling
     /\ calc.forecast_production * Scale
          + (calc.ceiling - calc.floor - 1) * calc.pack_energy_increment
        < calc.required * Scale
    => calc.charge_percent = calc.ceiling

\* The worked example of C10: floor 20, ceiling 100, 30000 Wh required,
\* 12600 Wh usable, no forecast.
C10_Example ==
  pc = "calc_done" /\ calc.floor = 20 /\ calc.ceiling = 100
     /\ calc.required = 30000 /\ calc.forecast_production = 0
     /\ calc.pack_energy_increment = 126 * Scale
    => calc.charge_percent = 100

\* Deficit of a call of calculate_backup_reserve: required energy minus
\* forecast.
Deficit(f) == f.required - f.forecast_production

\* C11: of two calls with the same capacity, loss factors, floor and
\* ceiling, the one with the smaller or equal deficit never returns the
\* larger reserve.
C11_MonotoneInDeficit ==
  pc = "calc_done" /\ Len(hist.calls) = 1
    => /\ (Deficit(hist.calls[1]) <= Deficit(calc)
             => hist.calls[1].charge_percent <= calc.charge_percent)
       /\ (Deficit(calc) <= Deficit(hist.calls[1])
             => calc.charge_percent <= hist.calls[1].charge_percent)

C11_Witness ==
  /\ pc = "calc_done"
  /\ Len(hist.calls) = 1
  /\ Deficit(hist.calls[1]) = 9954
  /\ Deficit(calc) = 9955
  /\ hist.calls[1].charge_percent = 99
  /\ calc.charge_percent = 100

\* C12: the fill loop ends after at most (ceiling - floor) iterations, for a
\* floor at or below the ceiling; calc.iters counts the executions of the
\* loop body.
C12_AtMostCeilingMinusFloorIterations ==
  pc = "calc_done" /\ calc.floor <= calc.ceiling
    => calc.iters <= calc.ceiling - calc.floor

\* Commands are only ever issued from these positions of
\* set_backup_reserve_percent, or have been issued when hist.cmds > 0.
CommandPositions == {"set_reserve", "sleep", "site_data", "classify",
                     "sbrp_return"}

\* C13: no command is issued unless the handle comes from a discovery that
\* yielded exactly one device and the battery data read at the start of the
\* call reported a battery count above zero; a discovery of another size, or
\* a count of zero, raises before the first command.
C13_CommandNeedsOneDeviceWithBatteries ==
  /\ [](pc \in CommandPositions \/ hist.cmds > 0
          => /\ cached_teslapy_battery # NoBattery
             /\ cached_teslapy_battery.battery_count > 0)
  /\ [][cached_teslapy_battery = NoBattery /\ cached_teslapy_battery' # NoBattery
          => hist'.listLen = 1]_vars
  /\ [][hist'.listLen # hist.listLen /\ hist'.listLen \notin {-1, 1}
          => /\ pc' = "except"
             /\ err'.kind = "precondition"
             /\ hist'.cmds = 0
             /\ cached_teslapy_battery' = NoBattery]_vars
  /\ [][pc = "sbrp_get_data" /\ pc' # "inner_for"
          => pc' = "except" /\ hist'.cmds = 0]_vars
  /\ [][pc = "sbrp_get_data" /\ pc' = "inner_for"
          => cached_teslapy_battery'.battery_count > 0]_vars

C13_Witness ==
  /\ pc = "sleep"
  /\ hist.cmds = 1
  /\ hist.listLen = 1
  /\ cached_teslapy_battery # NoBattery
  /\ cached_teslapy_battery.battery_count = 2

\* C14: ChargingAsExpected ends the convergence loop on any round, round 1
\* included; a call whose round 1 observed charging returns after exactly
\* one command and one telemetry read.
C14_ChargingTerminatesOnAnyRound ==
  /\ [][pc = "classify" /\ CurClass = "ChargingAsExpected"
        => /\ pc' = "sbrp_return"
           /\ index' = index
           /\ hist'.cmds = hist.cmds]_vars
  /\ [](pc = "sbrp_return" /\ hist.round1 = "ChargingAsExpected"
          => hist.cmds = 1 /\ hist.polls = 1 /\ hist.lastIndex = 1)
  /\ [](pc = "done" /\ result.kind = "ok" /\ hist.round1 = "ChargingAsExpected"
          => hist.cmds = 1)

C14_Witness ==
  /\ pc = "done"
  /\ result.kind = "ok"
  /\ hist.round1 = "ChargingAsExpected"
  /\ hist.lastIndex = 1
  /\ hist.cmds = 1

C16_SameTargetAcrossAttempts ==
  pc = "sleep" => hist.lastCmd = hist.firstTarget

\* C16, amended: the target is fixed for one attempt.  Every command carries
\* the attempt's percent_target, which no step of
\* set_backup_reserve_percent changes, so all rounds of an attempt send the
\* same value; in peak mode it is the same over all attempts as well.
C16_SameTargetWithinAttempt ==
  /\ [](pc = "sleep" => hist.lastCmd = percent_target)
  /\ [][pc = "set_reserve" /\ hist.cmds >= 1
        => hist'.lastCmd = hist.lastCmd]_vars
  /\ [][(pc \in CommandPositions) /\ pc' \in CommandPositions \cup {"inner_for"}
        => percent_target' = percent_target]_vars
  /\ [](pc = "sleep" /\ mode = "peak" => hist.lastCmd = hist.firstTarget)

C16_Witness ==
  /\ pc = "sleep"
  /\ mode = "off_peak"
  /\ hist.attempts = 2
  /\ hist.cmds = 2
  /\ hist.firstTarget = 100
  /\ hist.lastCmd = 30

\* C17: one invocation issues at most global_retry_limit *
\* set_backup_reserve_retry_limit commands and as many settle delays, and
\* sleeps between attempts at most global_retry_limit - 1 times (never, for
\* a limit of zero); an invocation that raised after the last attempt slept
\* exactly global_retry_limit - 1 times.
C17_CommandAndSleepBounds ==
  /\ hist.totalCmds <= global_retry_limit * set_backup_reserve_retry_limit
  /\ hist.settleSleeps <= global_retry_limit * set_backup_reserve_retry_limit
  /\ hist.settleSleeps <= hist.totalCmds
  /\ hist.cmds <= set_backup_reserve_retry_limit
  /\ global_retry_limit >= 1 => hist.outerSleeps <= global_retry_limit - 1
  /\ global_retry_limit = 0 => hist.outerSleeps = 0
  /\ pc = "done" /\ result.kind = "raised"
       => hist.outerSleeps = global_retry_limit - 1

C17_Witness ==
  /\ pc = "done"
  /\ result.kind = "raised"
  /\ global_retry_limit = MaxGlobalRetry
  /\ set_backup_reserve_retry_limit = MaxReserveRetry
  /\ hist.totalCmds = MaxGlobalRetry * MaxReserveRetry
  /\ hist.settleSleeps = MaxGlobalRetry * MaxReserveRetry
  /\ hist.outerSleeps = MaxGlobalRetry - 1

\* C18: a block is counted exactly when its period_end lies strictly inside
\* the window, the running total is the sum of the counted rates (each for
\* half an hour) over the sites requested so far, and the returned value is
\* that sum cut to whole watt-hours once, at the end.
C18_SumOfSamplesStrictlyInsideWindow ==
  /\ fc # NoFc => fc.total_energy = fc.expected
  /\ pc = "fc_done" => forecast_tomorrow = fc.expected \div 2

C18_Witness ==
  /\ pc = "fc_done"
  /\ solcast_site_ids = 2
  /\ fc.days = {0}
  /\ fc.expected = 60001
  /\ forecast_tomorrow = 30000

\* C19: a failed site request ends get_solar_forecast_tomorrow at once with
\* the failure raised to the caller and no value returned, whatever the
\* earlier sites contributed; a value is returned only after every site
\* answered, and no site is requested twice.
C19_SiteFailurePropagates ==
  /\ [](fc # NoFc
          => /\ Len(fc.requests) <= solcast_site_ids
             /\ \A a, b \in DOMAIN fc.requests :
                  a # b => fc.requests[a] # fc.requests[b])
  /\ [](fc # NoFc /\ fc.failed
          => /\ pc = "except"
             /\ err.kind = "io"
             /\ ~hist.fetched
             /\ forecast_tomorrow = 0)
  /\ [](pc = "fc_done"
          => /\ hist.fetched
             /\ ~fc.failed
             /\ Len(fc.requests) = solcast_site_ids)
  /\ [][pc = "except" => fc' = fc /\ forecast_tomorrow' = forecast_tomorrow]_vars

C19_Witness ==
  /\ pc = "except"
  /\ fc.failed
  /\ fc.requests = <<1, 2>>
  /\ fc.total_energy > 0
  /\ forecast_tomorrow = 0

\* C20: in an attempt of set_off_peak_mode the target is computed only after
\* the forecast was fetched, and a command is issued only after both; an
\* attempt whose fetch or computation failed issues no command.
C20_FetchThenComputeThenCommand ==
  mode = "off_peak"
    => /\ hist.computed => hist.fetched
       /\ hist.cmds > 0 => hist.fetched /\ hist.computed
       /\ pc \in CommandPositions => hist.fetched /\ hist.computed
       /\ pc \in {"calc", "calc_while", "calc_return"}
            => hist.fetched /\ hist.cmds = 0
       /\ pc \in {"forecast", "forecast_site"}
            => ~hist.fetched /\ ~hist.computed /\ hist.cmds = 0
       /\ pc = "except" /\ ~(hist.fetched /\ hist.computed) => hist.cmds = 0

C20_Witness ==
  /\ mode = "off_peak"
  /\ pc = "sleep"
  /\ hist.cmds = 1
  /\ hist.fetched
  /\ hist.computed

\* Positions inside get_solar_forecast_tomorrow and calculate_backup_reserve
\* as called by set_off_peak_mode.
ForecastPositions == {"forecast", "forecast_site", "calc", "calc_while",
                      "calc_return"}

C22_ValuesReadInCurrentAttempt ==
  /\ pc \in {"calc_while", "calc_return"} /\ mode = "off_peak" => hist.refreshed
  /\ pc = "sbrp_return"
       => /\ hist.refreshed
          /\ total_pack_energy = cached_teslapy_battery.total_pack_energy
          /\ live_site_data # NoData

\* C23: calculate_backup_reserve is pure: no step of it performs a device
\* discovery (hist.listLen records the list a discovery returned), changes
\* the cached battery object, or fails on a provider error.
C23_CalculateIsPure ==
  [][(pc \in {"calc", "calc_while", "calc_return"})
       => /\ cached_teslapy_battery' = cached_teslapy_battery
          /\ hist'.listLen = hist.listLen
          /\ pc' # "except"]_vars

\* C24: every attempt starts from scratch.  In off-peak mode each attempt
\* calls the forecast provider anew (one fetch per attempt begun) and
\* computes its target from that fetch; in both modes the convergence loop of
\* each attempt starts at round 1, so a round-1 WithinMargin or
\* DischargingAsExpected is provisional in a later attempt as well.
C24_AttemptRestartsFromScratch ==
  /\ [](mode = "off_peak"
          => hist.fetches = hist.attempts - (IF pc = "forecast" THEN 1 ELSE 0))
  /\ [](mode = "off_peak" /\ pc \in {"calc", "calc_while", "calc_return"}
          => hist.fetched /\ ~hist.computed)
  /\ [][pc = "outer_for" /\ pc' # "done"
        => /\ ~hist'.fetched
           /\ ~hist'.computed
           /\ pc' = IF mode = "peak" THEN "sbrp_discover" ELSE "forecast"]_vars
  /\ [][pc = "sbrp_get_data" /\ pc' = "inner_for" => index' = 1]_vars
  /\ [](pc = "set_reserve" => index = hist.cmds + 1)
  /\ [][pc = "classify" /\ index = 1 /\ hist.attempts >= 2
          /\ CurClass \in {"WithinMargin", "DischargingAsExpected"}
        => pc' = "inner_for" /\ index' = 2]_vars

C24_Witness ==
  /\ mode = "off_peak"
  /\ hist.attempts = 2
  /\ hist.fetches = 2
  /\ hist.failures = 1
  /\ hist.totalCmds = 3
  /\ pc = "inner_for"
  /\ index = 2
  /\ hist.round1 = "WithinMargin"

\* C25: a failed assertion (discovery not yielding exactly one device, or a
\* battery count of zero) ends the attempt before any command; a failed
\* discovery leaves no battery object cached, so the next attempt discovers
\* again, while a cached battery object is never discovered again; the
\* battery count is read anew in every attempt.  The failure counts against
\* the outer retry limit like any other: an invocation that met failed
\* assertions, fewer failures than global_retry_limit in all, ends in
\* success.
C25_PreconditionFailureIsRetriedByOuterLoop ==
  /\ [][pc # "except" /\ pc' = "except" /\ err'.kind = "precondition"
        => /\ pc \in {"calc", "sbrp_discover", "sbrp_get_data"}
           /\ hist'.cmds = 0
           /\ hist'.totalCmds = hist.totalCmds]_vars
  /\ [][hist'.listLen # hist.listLen /\ hist'.listLen \notin {-1, 1}
        => cached_teslapy_battery' = NoBattery /\ pc' = "except"]_vars
  /\ [][(pc \in {"calc", "sbrp_discover"}) /\ cached_teslapy_battery # NoBattery
        => /\ hist'.listLen = hist.listLen
           /\ cached_teslapy_battery' = cached_teslapy_battery
           /\ pc' # "except"]_vars
  /\ [][pc = "sbrp_discover" /\ cached_teslapy_battery = NoBattery
        => hist'.listLen # -1 \/ (pc' = "except" /\ err'.kind = "io")]_vars
  /\ [][pc = "sbrp_get_data"
        => hist'.refreshed \/ (pc' = "except" /\ err'.kind = "io")]_vars
  /\ [](pc = "done" /\ hist.precondFails >= 1
          /\ hist.failures < global_retry_limit
          => result.kind = "ok" /\ hist.cmds >= 1)

C25_Witness ==
  /\ pc = "done"
  /\ result.kind = "ok"
  /\ hist.precondFails = 1
  /\ hist.failures = 1
  /\ hist.attempts = 2
  /\ hist.listLen = 1
  /\ hist.totalCmds = 1

\* The telemetry just read is within charge_margin of the target
\* (meaningful at pc = "classify").
SocWithinMargin ==
  /\ live_site_data # NoData
  /\ live_site_data.percentage_charged - percent_target <= charge_margin
  /\ percent_target - live_site_data.percentage_charged <= charge_margin

\* C26: the margin test has priority: telemetry within charge_margin of the
\* target is WithinMargin whatever the power flow, and the power-flow classes
\* arise only outside the margin.  So a round-1 reading within the margin
\* does not end the loop even when the battery imports more than
\* reserve_switch_margin, and a reading within the margin on round >= 2 ends
\* the loop with success whatever the powers.
C26_MarginTestHasPriority ==
  /\ [](pc = "classify" /\ SocWithinMargin => CurClass = "WithinMargin")
  /\ [](pc = "classify"
          /\ CurClass \in {"ChargingAsExpected", "DischargingAsExpected",
                           "Indeterminate"}
          => ~SocWithinMargin)
  /\ [][pc = "classify" /\ index = 1 /\ SocWithinMargin
        => pc' = "inner_for" /\ index' = 2 /\ hist'.round1 = "WithinMargin"]_vars
  /\ [][pc = "classify" /\ index >= 2 /\ SocWithinMargin
        => pc' = "sbrp_return" /\ hist'.lastClass = "WithinMargin"]_vars

C26_Witness ==
  /\ pc = "inner_for"
  /\ index = 2
  /\ hist.round1 = "WithinMargin"
  /\ live_site_data.percentage_charged = percent_target - 1
  /\ live_site_data.battery_power < -reserve_switch_margin

\* C27: a return of set_backup_reserve_percent whose last round observed
\* WithinMargin or DischargingAsExpected follows at least two commands.  With
\* set_backup_reserve_retry_limit = 1 the call returns only after a single
\* round that observed ChargingAsExpected, and a reading within the margin
\* leads to the convergence error.
C27_TwoCommandsUnlessCharging ==
  /\ [](pc = "sbrp_return"
          /\ hist.lastClass \in {"WithinMargin", "DischargingAsExpected"}
          => hist.cmds >= 2 /\ hist.lastIndex >= 2)
  /\ [](pc = "sbrp_return" /\ set_backup_reserve_retry_limit = 1
          => hist.lastClass = "ChargingAsExpected" /\ hist.cmds = 1)
  /\ [][pc = "classify" /\ set_backup_reserve_retry_limit = 1
          /\ CurClass # "ChargingAsExpected"
        => pc' = "inner_for" /\ index' = 2]_vars
  /\ [][pc = "inner_for" /\ set_backup_reserve_retry_limit = 1 /\ index = 2
        => /\ pc' = "except"
           /\ err'.kind = "convergence"
           /\ hist'.cmds = 1]_vars

C27_Witness ==
  /\ pc = "except"
  /\ err.kind = "convergence"
  /\ set_backup_reserve_retry_limit = 1
  /\ hist.round1 = "WithinMargin"
  /\ hist.cmds = 1
  /\ SocWithinMargin

\* C28: within one call of get_solar_forecast_tomorrow all sites are
\* filtered against one window: fc.days, the days the clock showed when the
\* windows of the sites were computed, never holds two days.
C28_OneWindowForAllSites ==
  fc # NoFc => \A d1, d2 \in fc.days : d1 = d2

====
